---- MODULE Spec2Model ----
(***************************************************************************)
(* State-machine model of compass-schema-validation: the redux reducer of  *)
(* modules/validation, its fetchValidation / saveValidation thunks, and    *)
(* the fetchSampleDocuments pipeline of modules/sample-documents.          *)
(*                                                                         *)
(* The repository holds two revisions of each module.  The revision that   *)
(* is loaded is fixed in the initial state:                                *)
(*   validationRev = "validation.js"  src/src/modules/validation.js        *)
(*   validationRev = "part_005"       src/unnamed/part_005                 *)
(*   sampleRev     = "aggregate"      src/unnamed/part_004                 *)
(*   sampleRev     = "find"           src/unnamed/part_003                 *)
(***************************************************************************)
EXTENDS Naturals, Sequences, FiniteSets

VARIABLES
  validationRev,   \* which revision of modules/validation is loaded
  sampleRev,       \* which revision of modules/sample-documents is loaded
  dataService,     \* state.dataService.dataService: NULL or the handle
  validation,      \* state.validation, the record the validation reducer owns
  pendingSaves,    \* dataService.command calls whose callback has not run
  pendingFetches,  \* dataService.listCollections calls whose callback has not run
  sampleDocuments, \* state.sampleDocuments
  collection,      \* the documents of the active collection in the backing store
  requests,        \* the fetchSampleDocuments invocations, in invocation order
  uncaught,        \* TRUE once an exception escaped a store callback
  namespace,       \* state.namespace: '' or the namespace of the collection
  isZeroState,     \* state.isZeroState, owned by the zero-state reducer
  isEditable,      \* state.isEditable
  propsError,      \* the error property the editor is given, if any
  snapshot,        \* history: validationAction and validationLevel as last
                   \* fetched (the initial ones before that), SavedSince
                   \* once a save has completed after that
  lastEvent        \* history: the step just taken (read by properties only)

vars == <<validationRev, sampleRev, dataService, validation, pendingSaves,
          pendingFetches, sampleDocuments, collection, requests, uncaught,
          namespace, isZeroState, isEditable, propsError, snapshot, lastEvent>>

validationVars == <<validation, pendingSaves, pendingFetches>>
sampleVars == <<sampleDocuments, requests>>
viewVars == <<namespace, isZeroState, isEditable, propsError>>

----------------------------------------------------------------------------
(* Bounds of the model.                                                    *)

\* Store calls of the validation module (command, listCollections) in flight.
MaxInFlight == 1
\* fetchSampleDocuments invocations.
MaxRequests == 2

----------------------------------------------------------------------------
(* JavaScript values.  null and undefined are spelled as JavaScript spells *)
(* them when they are concatenated to a string.                            *)

NULL == "null"
UNDEFINED == "undefined"

\* Structured values an expression evaluates to.
DocA == "value:{a:1}"
DocB == "value:{b:2}"
StrEmpty == "value:''"
Documents == {DocA, DocB}

\* Validator texts.
TextEmpty == ""
TextMalformed == "{ a: "
RawA == "{ a: 1 }"
RawB == "{ b: 2 }"
JsA == "{\n  a: 1\n}"
JsB == "{\n  b: 2\n}"
JsEmptyStr == "''"
EjsonA == "{\"a\":1}"
EjsonB == "{\"b\":2}"
EjsonEmptyStr == "\"\""
Ejson2A == "{\n  \"a\": 1\n}"
Ejson2B == "{\n  \"b\": 2\n}"

\* The texts the editor hands to validatorChanged.
UserTexts == {TextEmpty, TextMalformed, RawA, JsEmptyStr}

\* Error descriptors.
SyntaxErr == "SyntaxError"
NotAccepted == "MongoDB language model does not accept the input"

\* What the store's callbacks carry as error.
StoreErr == "MongoError"

----------------------------------------------------------------------------
(* Expression evaluation and the stringifiers.                             *)

\* '__result = ' + input: the string JavaScript concatenates for input.
SourceOf(input) ==
  CASE input \in Documents -> "[object Object]"
    [] input = StrEmpty -> ""
    [] OTHER -> input

\* ctx.evaluate('__result = ' + input): the value, or SyntaxErr when it throws.
executeJavascript(input) ==
  LET src == SourceOf(input) IN
  CASE src \in {RawA, JsA, EjsonA, Ejson2A} -> DocA
    [] src \in {RawB, JsB, EjsonB, Ejson2B} -> DocB
    [] src \in {JsEmptyStr, EjsonEmptyStr} -> StrEmpty
    [] src = UNDEFINED -> UNDEFINED
    [] src = NULL -> NULL
    [] OTHER -> SyntaxErr

\* The contexts a call of executeJavascript(input) creates and leaves
\* undestroyed: new Context(sandbox) is followed by ctx.evaluate and then by
\* ctx.destroy(), which is not reached when ctx.evaluate throws.
UndestroyedContexts(input) ==
  IF executeJavascript(input) = SyntaxErr THEN 1 ELSE 0

\* javascriptStringify(value, null, 2)
javascriptStringify(value) ==
  CASE value = DocA -> JsA
    [] value = DocB -> JsB
    [] value = StrEmpty -> JsEmptyStr
    [] OTHER -> value

\* EJSON.stringify(value)
EJSONstringify(value) ==
  CASE value = DocA -> EjsonA
    [] value = DocB -> EjsonB
    [] value = StrEmpty -> EjsonEmptyStr
    [] OTHER -> value

\* EJSON.stringify(value, null, 2)
EJSONstringify2(value) ==
  CASE value = DocA -> Ejson2A
    [] value = DocB -> Ejson2B
    [] value = StrEmpty -> EjsonEmptyStr
    [] OTHER -> value

\* queryLanguage.accepts(text): the rule grammar accepts query documents only.
accepts(text) == text \in {EjsonA, EjsonB}

\* A checkValidator whose catch block loses the error.
checkValidatorLosesError(validator) ==
  LET res == executeJavascript(validator) IN
  [syntaxError |-> NULL,
   validator |-> IF res = SyntaxErr THEN validator ELSE res]

\* checkValidator of validation.js: the evaluated value, or the input and the
\* error when the evaluation throws.
checkValidator(validator) ==
  LET res == executeJavascript(validator) IN
  IF res = SyntaxErr
    THEN [syntaxError |-> SyntaxErr, validator |-> validator]
    ELSE [syntaxError |-> NULL, validator |-> res]

\* checkValidator of part_005: the EJSON text of the evaluated value, with the
\* grammar's verdict.
checkValidatorLegacy(validator) ==
  LET res == executeJavascript(validator) IN
  IF res = SyntaxErr
    THEN [validator |-> validator, syntaxError |-> SyntaxErr]
    ELSE [validator |-> EJSONstringify(res),
          syntaxError |-> IF accepts(EJSONstringify(res)) THEN NULL ELSE NotAccepted]

----------------------------------------------------------------------------
(* The validation reducer.                                                 *)

INITIAL_STATE ==
  [validator |-> "", validationAction |-> "warning", validationLevel |-> "moderate",
   isChanged |-> FALSE, syntaxError |-> NULL, prevValidator |-> UNDEFINED]

\* part_005 has neither validationAction, validationLevel nor prevValidator.
INITIAL_STATE_LEGACY ==
  [validator |-> "", validationAction |-> UNDEFINED, validationLevel |-> UNDEFINED,
   isChanged |-> FALSE, syntaxError |-> NULL, prevValidator |-> UNDEFINED]

changeValidator(state, validator) ==
  [state EXCEPT !.isChanged = TRUE,
                !.validator = validator,
                !.syntaxError = checkValidator(validator).syntaxError]

changeValidatorLegacy(state, validator) ==
  [state EXCEPT !.isChanged = TRUE,
                !.validator = checkValidatorLegacy(validator).validator,
                !.syntaxError = checkValidatorLegacy(validator).syntaxError]

\* A cancel that forgets to clear the syntax error.
cancelValidatorKeepsSyntaxError(state) ==
  [state EXCEPT !.isChanged = FALSE,
                !.validator = state.prevValidator]

cancelValidator(state) ==
  [state EXCEPT !.isChanged = FALSE,
                !.validator = state.prevValidator,
                !.syntaxError = NULL]

cancelValidatorLegacy(state) ==
  [state EXCEPT !.isChanged = FALSE,
                !.validator = "",
                !.syntaxError = NULL]

updateValidator(state, validator) ==
  [state EXCEPT !.isChanged = FALSE,
                !.validator = validator,
                !.syntaxError = NULL]

saveValidator(state, validator) ==
  [state EXCEPT !.isChanged = FALSE,
                !.validator = validator,
                !.syntaxError = NULL]

createValidator(state, validator) ==
  LET text == javascriptStringify(checkValidator(validator).validator) IN
  [state EXCEPT !.isChanged = FALSE,
                !.prevValidator = text,
                !.validator = text,
                !.syntaxError = NULL]

\* The snapshot of the record: createValidator keeps the validator text in
\* prevValidator and nothing of validationAction and validationLevel.
prevValidation(state) ==
  [validator |-> state.prevValidator,
   validationAction |-> UNDEFINED,
   validationLevel |-> UNDEFINED]

changeValidationAction(state, validationAction) ==
  [state EXCEPT !.validationAction = validationAction]

changeValidationLevel(state, validationLevel) ==
  [state EXCEPT !.validationLevel = validationLevel]

----------------------------------------------------------------------------
(* The initial state: the store as constructed, no data service connected, *)
(* no store call in flight.                                                *)

\* What listCollections hands to its callback as data: kind says whether
\* data is undefined, [] or has an entry; options are data[0].options.
NoOptions ==
  [validator |-> UNDEFINED, validationAction |-> UNDEFINED, validationLevel |-> UNDEFINED]

NoData == [kind |-> "none", hasOptions |-> FALSE, options |-> NoOptions]

NoEvent ==
  [type |-> "init", stale |-> FALSE, error |-> FALSE, errBefore |-> FALSE,
   input |-> "", data |-> NoData, undestroyed |-> 0]

\* The validationAction and validationLevel a record holds.
Fields(state) ==
  [validationAction |-> state.validationAction,
   validationLevel |-> state.validationLevel]

\* History: a save has completed without error since the last fetch, so the
\* values last fetched are no longer the ones to go back to.
SavedSince == [validationAction |-> "saved", validationLevel |-> "saved"]

\* The namespace of a store that has seen no collection.
INITIAL_NAMESPACE == ""

\* The state of the zero-state reducer before any action.
INITIAL_ZERO_STATE == TRUE

\* The state of the sample-documents reducer; type is absent (undefined)
\* until a reducer copies one in.
INITIAL_SAMPLE_STATE ==
  [matching |-> NULL, notmatching |-> NULL, isLoading |-> FALSE, type |-> UNDEFINED]

\* The collection of the backing store, in natural order, as runs of equal
\* documents: d1 satisfies {a:1} only, d2 satisfies {b:2} only.
Block(doc, n) == [doc |-> doc, n |-> n]

Sat(doc, query) ==
  \/ doc = "d1" /\ query = DocA
  \/ doc = "d2" /\ query = DocB

SmallCollection == <<Block("d1", 1), Block("d2", 1)>>

Init ==
  /\ validationRev \in {"validation.js", "part_005"}
  /\ sampleRev = "aggregate"
  /\ dataService = NULL
  /\ validation = IF validationRev = "validation.js"
                    THEN INITIAL_STATE ELSE INITIAL_STATE_LEGACY
  /\ pendingSaves = <<>>
  /\ pendingFetches = <<>>
  /\ sampleDocuments = INITIAL_SAMPLE_STATE
  /\ collection = SmallCollection
  /\ requests = <<>>
  /\ uncaught = FALSE
  /\ snapshot = Fields(validation)
  /\ namespace = INITIAL_NAMESPACE
  /\ isZeroState = INITIAL_ZERO_STATE
  /\ isEditable = TRUE
  /\ propsError = UNDEFINED
  /\ lastEvent = NoEvent

----------------------------------------------------------------------------
(* Helpers on sequences of pending store calls.                            *)

RemoveAt(s, i) == [j \in 1..(Len(s) - 1) |-> IF j < i THEN s[j] ELSE s[j + 1]]

\* History: a VALIDATOR_CHANGED was dispatched while these calls were in flight.
MarkEdited(s) == [j \in 1..Len(s) |-> [s[j] EXCEPT !.edited = TRUE]]

\* History of a step: what ran, whether it is the callback of a store call
\* that a later VALIDATOR_CHANGED overtook, whether the store reported an
\* error, and whether the state held a syntax error before the step.  input
\* is the argument of a dispatched action, data what listCollections returned,
\* undestroyed the number of sandbox contexts the step created and left.
Event(type, stale, error) ==
  [type |-> type, stale |-> stale, error |-> error,
   errBefore |-> validation.syntaxError # NULL,
   input |-> "", data |-> NoData, undestroyed |-> 0]

EventOf(type, input) == [Event(type, FALSE, FALSE) EXCEPT !.input = input]

----------------------------------------------------------------------------
(* Actions of the validation module.                                       *)

\* The 'data-service-connected' event stores the handle in state.dataService.
DataServiceConnected ==
  /\ dataService = NULL
  /\ dataService' = "ds"
  /\ lastEvent' = Event("DATA_SERVICE_CONNECTED", FALSE, FALSE)
  /\ UNCHANGED <<validationRev, sampleRev, viewVars, snapshot, validationVars, sampleVars,
                 collection, uncaught>>

\* dispatch(validatorChanged(validator)): the editor's onChange.
ValidatorChanged(validator) ==
  /\ validation' = IF validationRev = "validation.js"
                     THEN changeValidator(validation, validator)
                     ELSE changeValidatorLegacy(validation, validator)
  /\ pendingSaves' = MarkEdited(pendingSaves)
  /\ pendingFetches' = MarkEdited(pendingFetches)
  /\ lastEvent' = [EventOf("VALIDATOR_CHANGED", validator)
                     EXCEPT !.undestroyed = UndestroyedContexts(validator)]
  /\ UNCHANGED <<validationRev, sampleRev, viewVars, snapshot, dataService, sampleVars,
                 collection, uncaught>>

\* dispatch(validatorCanceled())
ValidatorCanceled ==
  /\ validation' = IF validationRev = "validation.js"
                     THEN cancelValidator(validation)
                     ELSE cancelValidatorLegacy(validation)
  /\ lastEvent' = Event("VALIDATOR_CANCELED", FALSE, FALSE)
  /\ UNCHANGED <<validationRev, sampleRev, viewVars, snapshot, dataService, pendingSaves,
                 pendingFetches, sampleVars, collection, uncaught>>

\* part_005: the editor's onValidatorSave dispatches validatorSaved with the
\* text of the state.
ValidatorSavedLegacy ==
  /\ validationRev = "part_005"
  /\ validation' = saveValidator(validation, validation.validator)
  /\ lastEvent' = Event("VALIDATOR_SAVED", FALSE, FALSE)
  /\ UNCHANGED <<validationRev, sampleRev, viewVars, snapshot, dataService, pendingSaves,
                 pendingFetches, sampleVars, collection, uncaught>>

\* dispatch(validationActionChanged(validationAction))
ValidationActionChanged(validationAction) ==
  /\ validationRev = "validation.js"
  /\ validation' = changeValidationAction(validation, validationAction)
  /\ lastEvent' = EventOf("VALIDATION_ACTION_CHANGED", validationAction)
  /\ UNCHANGED <<validationRev, sampleRev, viewVars, snapshot, dataService, pendingSaves,
                 pendingFetches, sampleVars, collection, uncaught>>

\* dispatch(validationLevelChanged(validationLevel))
ValidationLevelChanged(validationLevel) ==
  /\ validationRev = "validation.js"
  /\ validation' = changeValidationLevel(validation, validationLevel)
  /\ lastEvent' = EventOf("VALIDATION_LEVEL_CHANGED", validationLevel)
  /\ UNCHANGED <<validationRev, sampleRev, viewVars, snapshot, dataService, pendingSaves,
                 pendingFetches, sampleVars, collection, uncaught>>

\* command[key] of a JavaScript object: undefined when the key is absent.
Get(object, key) == IF key \in DOMAIN object THEN object[key] ELSE UNDEFINED

\* The collMod command saveValidation sends for the text it is given.
SaveCommand(validator) ==
  [collMod |-> "collection",
   validator |-> checkValidator(validator).validator,
   validationLevel |-> "moderate"]

\* dispatch(saveValidation(validator)) with the text of the state: the thunk
\* up to the dataService.command call.  Without a data service it does nothing.
SaveValidation ==
  /\ validationRev = "validation.js"
  /\ Len(pendingSaves) + Len(pendingFetches) < MaxInFlight
  /\ pendingSaves' =
       IF dataService # NULL
         THEN Append(pendingSaves, [validator |-> validation.validator,
                                    command |-> SaveCommand(validation.validator),
                                    edited |-> FALSE])
         ELSE pendingSaves
  /\ lastEvent' = [Event("saveValidation", FALSE, FALSE)
                     EXCEPT !.undestroyed = UndestroyedContexts(validation.validator)]
  /\ UNCHANGED <<validationRev, sampleRev, viewVars, snapshot, dataService, validation,
                 pendingFetches, sampleVars, collection, uncaught>>

\* The callback of dataService.command: (error, data) are logged and
\* validatorSaved(validator) is dispatched whatever they are.
SaveCallback(i, error) ==
  /\ i \in 1..Len(pendingSaves)
  /\ validation' = updateValidator(validation, pendingSaves[i].validator)
  /\ pendingSaves' = RemoveAt(pendingSaves, i)
  /\ snapshot' = IF error THEN snapshot ELSE SavedSince
  /\ lastEvent' = Event("saveCallback", pendingSaves[i].edited, error)
  /\ UNCHANGED <<validationRev, sampleRev, viewVars, dataService, pendingFetches,
                 sampleVars, collection, uncaught>>

\* dispatch(fetchValidation(namespace)): the thunk up to the listCollections call.
FetchValidation ==
  /\ Len(pendingSaves) + Len(pendingFetches) < MaxInFlight
  /\ pendingFetches' =
       IF dataService # NULL
         THEN Append(pendingFetches, [edited |-> FALSE])
         ELSE pendingFetches
  /\ lastEvent' = Event("fetchValidation", FALSE, FALSE)
  /\ UNCHANGED <<validationRev, sampleRev, viewVars, snapshot, dataService, validation,
                 pendingSaves, sampleVars, collection, uncaught>>

\* What listCollections may hand to its callback as data: nothing, an empty
\* list, or one entry whose options may be absent or lack any of the fields.
FetchData ==
  {[kind |-> k, hasOptions |-> FALSE, options |-> NoOptions] :
     k \in {"undefined", "empty", "entry"}}
  \cup
  {[kind |-> "entry", hasOptions |-> TRUE,
    options |-> [validator |-> v, validationAction |-> a, validationLevel |-> l]] :
     v \in {UNDEFINED, DocB},
     a \in {UNDEFINED, "error"},
     l \in {UNDEFINED, "strict"}}

\* lodash defaults: a field that is undefined takes the default.
defaults(value, default) == IF value = UNDEFINED THEN default ELSE value

\* The validation the listCollections callback of validation.js dispatches.
FetchedValidation(error, data) ==
  IF ~error /\ data.hasOptions
    THEN [validator |-> defaults(data.options.validator, INITIAL_STATE.validator),
          validationAction |-> defaults(data.options.validationAction,
                                        INITIAL_STATE.validationAction),
          validationLevel |-> defaults(data.options.validationLevel,
                                       INITIAL_STATE.validationLevel)]
    ELSE [validator |-> INITIAL_STATE.validator,
          validationAction |-> INITIAL_STATE.validationAction,
          validationLevel |-> INITIAL_STATE.validationLevel]

\* The value EJSON.stringify is given: a document, or the default ''.
AsValue(validator) == IF validator = "" THEN StrEmpty ELSE validator

\* The three dispatches of the callback, applied in order.
ApplyFetched(state, fetched) ==
  changeValidationLevel(
    changeValidationAction(
      createValidator(state, EJSONstringify2(AsValue(fetched.validator))),
      fetched.validationAction),
    fetched.validationLevel)

\* The store states the callback's three dispatches produce, in order; each
\* is what a subscriber of the store sees when that dispatch returns.
StatesOfFetched(state, fetched) ==
  LET created == createValidator(state, EJSONstringify2(AsValue(fetched.validator)))
      actioned == changeValidationAction(created, fetched.validationAction)
  IN <<created, actioned, changeValidationLevel(actioned, fetched.validationLevel)>>

\* The callback of dataService.listCollections.  data[0].options is read
\* first: it throws when data is undefined or empty.  part_005 reads it and
\* dispatches nothing.
FetchCallback(i, error, data) ==
  /\ i \in 1..Len(pendingFetches)
  /\ pendingFetches' = RemoveAt(pendingFetches, i)
  /\ IF data.kind # "entry"
       THEN /\ uncaught' = TRUE
            /\ UNCHANGED <<validation, snapshot>>
       ELSE /\ UNCHANGED uncaught
            /\ validation' =
                 IF validationRev = "validation.js"
                   THEN ApplyFetched(validation, FetchedValidation(error, data))
                   ELSE validation
            /\ snapshot' = IF validationRev = "validation.js"
                             THEN Fields(FetchedValidation(error, data))
                             ELSE snapshot
  /\ lastEvent' =
       [Event("fetchCallback", pendingFetches[i].edited, error)
          EXCEPT !.data = data,
                 !.undestroyed =
                    IF data.kind = "entry" /\ validationRev = "validation.js"
                      THEN UndestroyedContexts(
                             EJSONstringify2(AsValue(FetchedValidation(error, data).validator)))
                      ELSE 0]
  /\ UNCHANGED <<validationRev, sampleRev, viewVars, dataService, pendingSaves,
                 sampleVars, collection>>

Next ==
  \/ DataServiceConnected
  \/ \E validator \in UserTexts : ValidatorChanged(validator)
  \/ ValidatorCanceled
  \/ ValidatorSavedLegacy
  \/ \E validationAction \in {"warn", "error"} :
       ValidationActionChanged(validationAction)
  \/ \E validationLevel \in {"off", "moderate", "strict"} :
       ValidationLevelChanged(validationLevel)
  \/ SaveValidation
  \/ \E i \in 1..MaxInFlight, error \in BOOLEAN : SaveCallback(i, error)
  \/ FetchValidation
  \/ \E i \in 1..MaxInFlight, error \in BOOLEAN, data \in FetchData :
       FetchCallback(i, error, data)

Spec == Init /\ [][Next]_vars

----------------------------------------------------------------------------
(* The backing store's answers to the sample-document queries.             *)

MAX_LIMIT == 100000

MatchStage(query, nor) == [op |-> "$match", n |-> 0, query |-> query, nor |-> nor]
LimitStage(n) == [op |-> "$limit", n |-> n, query |-> NULL, nor |-> FALSE]

RECURSIVE LimitColl(_, _)
LimitColl(coll, n) ==
  IF coll = <<>> \/ n = 0 THEN <<>>
  ELSE IF coll[1].n <= n
    THEN <<coll[1]>> \o LimitColl(Tail(coll), n - coll[1].n)
    ELSE <<Block(coll[1].doc, n)>>

MatchColl(coll, stage) ==
  SelectSeq(coll, LAMBDA b : Sat(b.doc, stage.query) # stage.nor)

RECURSIVE RunPipeline(_, _)
RunPipeline(coll, pipeline) ==
  IF pipeline = <<>> THEN coll
  ELSE RunPipeline(IF pipeline[1].op = "$limit"
                     THEN LimitColl(coll, pipeline[1].n)
                     ELSE MatchColl(coll, pipeline[1]),
                   Tail(pipeline))

RECURSIVE CountColl(_, _)
CountColl(coll, query) ==
  IF coll = <<>> THEN 0
  ELSE (IF Sat(coll[1].doc, query) THEN coll[1].n ELSE 0)
       + CountColl(Tail(coll), query)

\* cursor.toArray of a result that a final {$limit: 1} (or limit: 1) bounds.
ToArray(coll) == [i \in 1..Len(coll) |-> coll[i].doc]

\* dataService.aggregate(namespace, pipeline, ...) read to the end.
Aggregate(pipeline) == ToArray(RunPipeline(collection, pipeline))

\* dataService.find(namespace, filter, {maxTimeMS: 5000, limit: 1}, ...)
Find(query, nor) ==
  ToArray(LimitColl(MatchColl(collection, MatchStage(query, nor)), 1))

----------------------------------------------------------------------------
(* The sample-documents reducer.                                           *)

refreshSampleDocuments(state, matching, notmatching) ==
  [state EXCEPT !.matching = matching,
                !.notmatching = notmatching,
                !.isLoading = FALSE]

loadSampleDocuments(state) ==
  [state EXCEPT !.type = "LOADING_SAMPLE_DOCUMENTS",
                !.isLoading = TRUE]

\* The reducer of syntaxErrorOccurred(error), which zeroDocuments dispatches.
syntaxErrorOccurred(state, error) == [state EXCEPT !.syntaxError = error]

\* matching[0] ? matching[0] : null
FirstOrNull(documents) == IF Len(documents) > 0 THEN documents[1] ELSE NULL

\* The query fetchSampleDocuments builds: the validator checked twice.
QueryOf(validator) == checkValidator(checkValidator(validator).validator).validator

\* The texts fetchSampleDocuments is invoked with.
SampleTexts == {RawA, RawB, TextMalformed}

----------------------------------------------------------------------------
(* fetchSampleDocuments.  A request is one invocation; pc is the store     *)
(* call whose callback it waits for, "done" once its chain of callbacks    *)
(* has ended, "nods" when it returned without any store call.              *)

NoPayload == [matching |-> NULL, notmatching |-> NULL]

NewRequest(validator, pc) ==
  [validator |-> validator,
   query |-> QueryOf(validator),
   pc |-> pc,
   phase |-> "matching",
   count |-> 0,
   pipeline |-> <<MatchStage(QueryOf(validator), FALSE), LimitStage(1)>>,
   matching |-> <<>>,
   fetched |-> 0,               \* history: SAMPLE_DOCUMENTS_FETCHED it dispatched
   failed |-> FALSE,            \* history: a store call of it reported an error
   loadingAtIssue |-> FALSE,    \* history: isLoading when its first call was issued
   payload |-> NoPayload]       \* history: what it dispatched last

\* dispatch(fetchSampleDocuments(validator)): LOADING_SAMPLE_DOCUMENTS is
\* dispatched, then the first store call is issued if a data service is there.
FetchSampleDocuments(validator) ==
  /\ Len(requests) < MaxRequests
  /\ sampleDocuments' = loadSampleDocuments(sampleDocuments)
  /\ requests' =
       Append(requests,
              IF dataService = NULL
                THEN NewRequest(validator, "nods")
                ELSE [NewRequest(validator,
                                 IF sampleRev = "aggregate" THEN "count" ELSE "find")
                        EXCEPT !.loadingAtIssue = sampleDocuments'.isLoading])
  /\ lastEvent' =
       [Event("fetchSampleDocuments", FALSE, FALSE)
          EXCEPT !.undestroyed =
                    UndestroyedContexts(validator)
                    + UndestroyedContexts(checkValidator(validator).validator)]
  /\ UNCHANGED <<validationRev, sampleRev, viewVars, snapshot, dataService, validationVars,
                 collection, uncaught>>

\* A zeroDocuments that surfaces the error and forgets to dispatch
\* SAMPLE_DOCUMENTS_FETCHED.
ZeroDocumentsWithoutFetched(r, error) ==
  /\ validation' = syntaxErrorOccurred(validation, error)
  /\ requests' = [requests EXCEPT ![r].pc = "done", ![r].failed = TRUE]
  /\ UNCHANGED sampleDocuments

\* zeroDocuments(dispatch, error), called by request r.
ZeroDocuments(r, error) ==
  /\ validation' = syntaxErrorOccurred(validation, error)
  /\ sampleDocuments' = refreshSampleDocuments(sampleDocuments, NULL, NULL)
  /\ requests' = [requests EXCEPT ![r].pc = "done",
                                  ![r].failed = TRUE,
                                  ![r].fetched = @ + 1,
                                  ![r].payload = NoPayload]

\* dispatch(sampleDocumentsFetched({matching, notmatching})) by request r.
DispatchFetched(r, matching, notmatching) ==
  /\ sampleDocuments' = refreshSampleDocuments(sampleDocuments,
                                               FirstOrNull(matching),
                                               FirstOrNull(notmatching))
  /\ requests' = [requests EXCEPT ![r].pc = "done",
                                  ![r].fetched = @ + 1,
                                  ![r].payload = [matching |-> FirstOrNull(matching),
                                                  notmatching |-> FirstOrNull(notmatching)]]
  /\ UNCHANGED validation

\* getSampleDocuments up to the aggregate call: the pipeline it sends.
LimitedPipeline(pipeline, count) ==
  IF count > MAX_LIMIT THEN <<LimitStage(MAX_LIMIT)>> \o pipeline ELSE pipeline

\* part_004: the callback of dataService.count.  The store rejects a filter
\* that is not a document.
CountCallback(r, error) ==
  /\ r \in 1..Len(requests)
  /\ requests[r].pc = "count"
  /\ ~error => requests[r].query \in Documents
  /\ IF error
       THEN ZeroDocuments(r, StoreErr)
       ELSE /\ requests' =
                 [requests EXCEPT
                    ![r].pc = "aggregate",
                    ![r].count = CountColl(collection, requests[r].query),
                    ![r].pipeline =
                       LimitedPipeline(@, CountColl(collection, requests[r].query))]
            /\ UNCHANGED <<validation, sampleDocuments>>
  /\ lastEvent' = Event("countCallback", FALSE, error)
  /\ UNCHANGED <<validationRev, sampleRev, viewVars, snapshot, dataService, pendingSaves,
                 pendingFetches, collection, uncaught>>

\* part_004: the callback of dataService.aggregate; on success cursor.toArray
\* is called.
AggregateCallback(r, error) ==
  /\ r \in 1..Len(requests)
  /\ requests[r].pc = "aggregate"
  /\ IF error
       THEN ZeroDocuments(r, StoreErr)
       ELSE /\ requests' = [requests EXCEPT ![r].pc = "toArray"]
            /\ UNCHANGED <<validation, sampleDocuments>>
  /\ lastEvent' = Event("aggregateCallback", FALSE, error)
  /\ UNCHANGED <<validationRev, sampleRev, viewVars, snapshot, dataService, pendingSaves,
                 pendingFetches, collection, uncaught>>

\* part_004: the callback of cursor.toArray.  The matching lookup hands its
\* documents to the callback that starts the $nor lookup; the $nor lookup
\* hands them to the callback that dispatches SAMPLE_DOCUMENTS_FETCHED.
ToArrayCallback(r, error) ==
  /\ r \in 1..Len(requests)
  /\ requests[r].pc = "toArray"
  /\ IF error
       THEN ZeroDocuments(r, StoreErr)
       ELSE IF requests[r].phase = "matching"
         THEN /\ requests' =
                   [requests EXCEPT
                      ![r].pc = "aggregate",
                      ![r].phase = "notmatching",
                      ![r].matching = Aggregate(requests[r].pipeline),
                      ![r].pipeline =
                         LimitedPipeline(<<MatchStage(requests[r].query, TRUE),
                                           LimitStage(1)>>,
                                         requests[r].count)]
              /\ UNCHANGED <<validation, sampleDocuments>>
         ELSE DispatchFetched(r, requests[r].matching,
                              Aggregate(requests[r].pipeline))
  /\ lastEvent' = Event("toArrayCallback", FALSE, error)
  /\ UNCHANGED <<validationRev, sampleRev, viewVars, snapshot, dataService, pendingSaves,
                 pendingFetches, collection, uncaught>>

\* part_003: the callbacks of the two dataService.find calls.  An error
\* ends the chain with no dispatch.  The store rejects a filter that is not
\* a document.
FindCallback(r, error) ==
  /\ r \in 1..Len(requests)
  /\ requests[r].pc = "find"
  /\ ~error => requests[r].query \in Documents
  /\ IF error
       THEN /\ requests' = [requests EXCEPT ![r].pc = "done", ![r].failed = TRUE]
            /\ UNCHANGED <<validation, sampleDocuments>>
       ELSE IF requests[r].phase = "matching"
         THEN /\ requests' =
                   [requests EXCEPT
                      ![r].phase = "notmatching",
                      ![r].matching = Find(requests[r].query, FALSE)]
              /\ UNCHANGED <<validation, sampleDocuments>>
         ELSE DispatchFetched(r, requests[r].matching,
                              Find(requests[r].query, TRUE))
  /\ lastEvent' = Event("findCallback", FALSE, error)
  /\ UNCHANGED <<validationRev, sampleRev, viewVars, snapshot, dataService, pendingSaves,
                 pendingFetches, collection, uncaught>>

\* The collections the sample queries are run against.
Collections ==
  {<<>>, <<Block("d1", 1)>>, SmallCollection,
   <<Block("d1", MAX_LIMIT + 1), Block("d2", 1)>>}

InitSampleDocuments ==
  /\ validationRev = "validation.js"
  /\ sampleRev \in {"aggregate", "find"}
  /\ dataService = NULL
  /\ validation = INITIAL_STATE
  /\ pendingSaves = <<>>
  /\ pendingFetches = <<>>
  /\ sampleDocuments = INITIAL_SAMPLE_STATE
  /\ collection \in Collections
  /\ requests = <<>>
  /\ uncaught = FALSE
  /\ snapshot = Fields(validation)
  /\ namespace = INITIAL_NAMESPACE
  /\ isZeroState = INITIAL_ZERO_STATE
  /\ isEditable = TRUE
  /\ propsError = UNDEFINED
  /\ lastEvent = NoEvent

NextSampleDocuments ==
  \/ DataServiceConnected
  \/ \E validator \in SampleTexts : FetchSampleDocuments(validator)
  \/ \E r \in 1..MaxRequests, error \in BOOLEAN : CountCallback(r, error)
  \/ \E r \in 1..MaxRequests, error \in BOOLEAN : AggregateCallback(r, error)
  \/ \E r \in 1..MaxRequests, error \in BOOLEAN : ToArrayCallback(r, error)
  \/ \E r \in 1..MaxRequests, error \in BOOLEAN : FindCallback(r, error)

SpecSampleDocuments == InitSampleDocuments /\ [][NextSampleDocuments]_vars

\* The data service calls back on every call it was sent; nothing obliges
\* the user to dispatch again or a data service to connect.
FairSampleDocuments ==
  \A r \in 1..MaxRequests :
    /\ WF_vars(\E error \in BOOLEAN : CountCallback(r, error))
    /\ WF_vars(\E error \in BOOLEAN : AggregateCallback(r, error))
    /\ WF_vars(\E error \in BOOLEAN : ToArrayCallback(r, error))
    /\ WF_vars(\E error \in BOOLEAN : FindCallback(r, error))

SpecSampleDocumentsFair == SpecSampleDocuments /\ FairSampleDocuments

----------------------------------------------------------------------------
(* The reducers as functions of (state, action).  A reducer given no state *)
(* (undefined) starts from its initial state.                              *)

UndefinedState == <<>>

\* state = INITIAL_STATE as a default parameter.
DefaultParameter(state, initial) == IF DOMAIN state = {} THEN initial ELSE state

\* A reducer that falls back to the initial state for an action it does not map.
reducerResetsOnUnmapped(state, action) ==
  LET st == DefaultParameter(state, INITIAL_STATE) IN
  CASE action.type = "VALIDATOR_CHANGED" -> changeValidator(st, action.validator)
    [] action.type = "VALIDATOR_CANCELED" -> cancelValidator(st)
    [] action.type = "VALIDATOR_CREATED" -> createValidator(st, action.validator)
    [] action.type = "VALIDATOR_SAVED" -> updateValidator(st, action.validator)
    [] action.type = "VALIDATION_ACTION_CHANGED" ->
         changeValidationAction(st, action.validationAction)
    [] action.type = "VALIDATION_LEVEL_CHANGED" ->
         changeValidationLevel(st, action.validationLevel)
    [] OTHER -> INITIAL_STATE

\* validation.js: MAPPINGS[action.type], or the state itself.
reducer(state, action) ==
  LET st == DefaultParameter(state, INITIAL_STATE) IN
  CASE action.type = "VALIDATOR_CHANGED" -> changeValidator(st, action.validator)
    [] action.type = "VALIDATOR_CANCELED" -> cancelValidator(st)
    [] action.type = "VALIDATOR_CREATED" -> createValidator(st, action.validator)
    [] action.type = "VALIDATOR_SAVED" -> updateValidator(st, action.validator)
    [] action.type = "VALIDATION_ACTION_CHANGED" ->
         changeValidationAction(st, action.validationAction)
    [] action.type = "VALIDATION_LEVEL_CHANGED" ->
         changeValidationLevel(st, action.validationLevel)
    [] OTHER -> st

\* part_005: three mapped actions.
reducerLegacy(state, action) ==
  LET st == DefaultParameter(state, INITIAL_STATE_LEGACY) IN
  CASE action.type = "VALIDATOR_CHANGED" -> changeValidatorLegacy(st, action.validator)
    [] action.type = "VALIDATOR_CANCELED" -> cancelValidatorLegacy(st)
    [] action.type = "VALIDATOR_SAVED" -> saveValidator(st, action.validator)
    [] OTHER -> st

\* The reducer of modules/sample-documents.
sampleDocumentsReducer(state, action) ==
  LET st == DefaultParameter(state, INITIAL_SAMPLE_STATE) IN
  CASE action.type = "SAMPLE_DOCUMENTS_FETCHED" ->
         refreshSampleDocuments(st, action.matching, action.notmatching)
    [] action.type = "LOADING_SAMPLE_DOCUMENTS" -> loadSampleDocuments(st)
    [] OTHER -> st

\* The reducer of modules/zero-state: ZERO_STATE_CHANGED carries isZeroState.
zeroStateReducer(state, action) ==
  IF action.type = "ZERO_STATE_CHANGED" THEN action.isZeroState ELSE state

zeroStateChanged == [type |-> "ZERO_STATE_CHANGED", isZeroState |-> FALSE]

----------------------------------------------------------------------------
(* What the components render, as functions of their properties.           *)

\* JavaScript truthiness of the values a property takes here.
Truthy(value) == value \notin {NULL, UNDEFINED, ""}

\* A renderValidationChangedButtons that does not look at syntaxError.
renderValidationChangedButtonsDespiteSyntaxError(err, val) ==
  ~Truthy(err) /\ val.isChanged

\* ValidationEditor: are the Update and Cancel buttons rendered?
renderValidationChangedButtons(err, val) ==
  ~Truthy(err) /\ ~Truthy(val.syntaxError) /\ val.isChanged

\* A renderSyntaxError that does not look at the error property.
renderSyntaxErrorAlways(err, val) == Truthy(val.syntaxError)

\* ValidationEditor: is the syntax error element rendered?
renderSyntaxError(err, val) == ~Truthy(err) /\ Truthy(val.syntaxError)

\* ValidationEditor: is the error element rendered?
renderError(err) == Truthy(err)

\* A checkIfZeroState that does not look at isEditable.
checkIfZeroStateIgnoresEditable(zero, editable) == zero

\* CompassSchemaValidation (part_000)
checkIfZeroState(zero, editable) == zero \/ ~editable

renderZeroState(zero, editable) == checkIfZeroState(zero, editable)

renderContent(zero, editable) == ~checkIfZeroState(zero, editable)

----------------------------------------------------------------------------
(* The components driven by the user, and the events of the application    *)
(* registry.  A control can be used only while it is rendered.             *)

ReduxInit == [type |-> "@@redux/INIT"]
Unknown == [type |-> "UNKNOWN"]

\* The error the editor may be given as a property.
PropsErrors == {UNDEFINED, "Error!"}

\* toNS(ns).collection
CollectionOf(ns) == IF ns = "db.coll" THEN "coll" ELSE ""

\* The reducer of the loaded revision of modules/validation.
Reduce(state, action) ==
  IF validationRev = "validation.js"
    THEN reducer(state, action)
    ELSE reducerLegacy(state, action)

InitView ==
  /\ validationRev \in {"validation.js", "part_005"}
  /\ sampleRev = "aggregate"
  /\ dataService = NULL
  /\ validation = Reduce(UndefinedState, ReduxInit)
  /\ pendingSaves = <<>>
  /\ pendingFetches = <<>>
  /\ sampleDocuments = sampleDocumentsReducer(UndefinedState, ReduxInit)
  /\ collection = SmallCollection
  /\ requests = <<>>
  /\ uncaught = FALSE
  /\ snapshot = Fields(validation)
  /\ namespace = INITIAL_NAMESPACE
  /\ isZeroState = INITIAL_ZERO_STATE
  /\ isEditable \in BOOLEAN
  /\ propsError \in PropsErrors
  /\ lastEvent = NoEvent

\* AceEditor onChange={this.props.validatorChanged}
OnChange(validator) ==
  /\ renderContent(isZeroState, isEditable)
  /\ ValidatorChanged(validator)

\* The Update button: onValidatorSave dispatches validatorSaved with the
\* text of the record.
OnValidatorSave ==
  /\ renderContent(isZeroState, isEditable)
  /\ renderValidationChangedButtons(propsError, validation)
  /\ validation' = Reduce(validation, [type |-> "VALIDATOR_SAVED",
                                       validator |-> validation.validator])
  /\ snapshot' = SavedSince
  /\ lastEvent' = Event("onValidatorSave", FALSE, FALSE)
  /\ UNCHANGED <<validationRev, sampleRev, viewVars, dataService, pendingSaves,
                 pendingFetches, sampleVars, collection, uncaught>>

\* The Cancel button: clickHandler={this.props.validatorCanceled}
OnValidatorCancel ==
  /\ renderContent(isZeroState, isEditable)
  /\ renderValidationChangedButtons(propsError, validation)
  /\ ValidatorCanceled

\* The Add Rule button of the zero state: changeZeroState dispatches
\* zeroStateChanged().  On a target that is not editable the button only
\* carries the class 'disabled'; its clickHandler is still bound.
ChangeZeroState ==
  /\ renderZeroState(isZeroState, isEditable)
  /\ isZeroState' = zeroStateReducer(isZeroState, zeroStateChanged)
  /\ lastEvent' = Event("ZERO_STATE_CHANGED", FALSE, FALSE)
  /\ UNCHANGED <<validationRev, sampleRev, dataService, validationVars,
                 sampleVars, collection, uncaught, snapshot, namespace,
                 isEditable, propsError>>

\* store.dispatch({type: 'UNKNOWN'}): every reducer of the store sees it.
UnknownAction ==
  /\ validation' = Reduce(validation, Unknown)
  /\ sampleDocuments' = sampleDocumentsReducer(sampleDocuments, Unknown)
  /\ isZeroState' = zeroStateReducer(isZeroState, Unknown)
  /\ lastEvent' = Event("UNKNOWN", FALSE, FALSE)
  /\ UNCHANGED <<validationRev, sampleRev, dataService, pendingSaves,
                 pendingFetches, requests, collection, uncaught, snapshot,
                 namespace, isEditable, propsError>>

\* A collection-changed handler that stores whatever namespace it is given.
CollectionChangedStoresAny(ns) ==
  /\ lastEvent' = EventOf("collection-changed", ns)
  /\ namespace' = ns
  /\ UNCHANGED <<validationRev, sampleRev, dataService, validationVars,
                 sampleVars, collection, uncaught, snapshot, isZeroState,
                 isEditable, propsError>>

\* appRegistry.emit('collection-changed', ns): a namespace without a
\* collection is ignored; otherwise the namespace is stored, the records are
\* reset and the validation of the collection is fetched.
CollectionChanged(ns) ==
  /\ lastEvent' = EventOf("collection-changed", ns)
  /\ IF CollectionOf(ns) = ""
       THEN UNCHANGED <<namespace, validation, sampleDocuments, snapshot,
                        pendingFetches>>
       ELSE /\ Len(pendingSaves) + Len(pendingFetches) < MaxInFlight
            /\ namespace' = ns
            /\ validation' = Reduce(UndefinedState, ReduxInit)
            /\ sampleDocuments' = sampleDocumentsReducer(UndefinedState, ReduxInit)
            /\ snapshot' = Fields(validation')
            /\ pendingFetches' =
                 IF dataService # NULL
                   THEN Append(pendingFetches, [edited |-> FALSE])
                   ELSE pendingFetches
  /\ UNCHANGED <<validationRev, sampleRev, dataService, pendingSaves, requests,
                 collection, uncaught, isZeroState, isEditable, propsError>>

NextView ==
  \/ DataServiceConnected
  \/ \E validator \in UserTexts : OnChange(validator)
  \/ OnValidatorSave
  \/ OnValidatorCancel
  \/ ChangeZeroState
  \/ UnknownAction
  \/ \E ns \in {"db", "db.coll"} : CollectionChanged(ns)
  \/ \E i \in 1..MaxInFlight, error \in BOOLEAN, data \in FetchData :
       FetchCallback(i, error, data)

SpecView == InitView /\ [][NextView]_vars

----------------------------------------------------------------------------
(* Properties.                                                             *)

\* C1: when a VALIDATOR_CHANGED was dispatched while a saveValidation request
\* was in flight, the completion of that save leaves the validator text and
\* isChanged of the newer edit as they are.
C1_SaveCompletionKeepsNewerEdit ==
  [][(lastEvent'.type = "saveCallback" /\ lastEvent'.stale)
       => /\ validation'.validator = validation.validator
          /\ validation'.isChanged = validation.isChanged]_vars

\* C2: when a VALIDATOR_CHANGED was dispatched while a fetchValidation request
\* was in flight, the completion of that fetch leaves the validation record
\* (validator text, isChanged, snapshot) as it is.
C2_FetchCompletionKeepsNewerRecord ==
  [][(lastEvent'.type = "fetchCallback" /\ lastEvent'.stale)
       => /\ validation'.validator = validation.validator
          /\ validation'.isChanged = validation.isChanged
          /\ validation'.prevValidator = validation.prevValidator]_vars

AllSettled ==
  /\ requests # <<>>
  /\ \A r \in 1..Len(requests) : requests[r].pc = "done"

\* C3: once every fetchSampleDocuments request has settled, matching and
\* notmatching are those the most recently invoked request dispatched.
C3_NewestRequestWins ==
  (AllSettled /\ ~requests[Len(requests)].failed)
    => /\ sampleDocuments.matching = requests[Len(requests)].payload.matching
       /\ sampleDocuments.notmatching = requests[Len(requests)].payload.notmatching

\* C4: a request issued with a data service whose chain of store callbacks
\* has ended, with or without an error, has dispatched the transition that
\* sets isLoading = FALSE.
C4_SettledRequestClearedLoading ==
  \A r \in 1..Len(requests) :
    requests[r].pc = "done" => requests[r].fetched >= 1

\* C5: right after a matching or non-matching lookup has failed, matching
\* and notmatching are both null and the error is surfaced.
C5_FailedLookupResetsBoth ==
  (lastEvent.error /\ lastEvent.type \in {"aggregateCallback", "toArrayCallback",
                                          "findCallback"})
    => /\ sampleDocuments.matching = NULL
       /\ sampleDocuments.notmatching = NULL
       /\ validation.syntaxError = StoreErr

\* C6: isLoading is TRUE exactly while some request is outstanding.
C6_LoadingIffOutstanding ==
  sampleDocuments.isLoading
    <=> (\E r \in 1..Len(requests) : requests[r].pc \notin {"done", "nods"})

\* C6 with a data service connected and no store error: the overlap of two
\* requests alone breaks it.
C6_LoadingIffOutstandingNoFailure ==
  (\A r \in 1..Len(requests) : requests[r].pc # "nods" /\ ~requests[r].failed)
    => C6_LoadingIffOutstanding

C8_UnchangedHasNoSyntaxError ==
  validation.isChanged = FALSE => validation.syntaxError = NULL

C8_Witness ==
  /\ lastEvent.type = "VALIDATOR_CANCELED"
  /\ lastEvent.errBefore
  /\ validation.isChanged = FALSE

\* C9: in every state the validation actions reach, if isChanged = FALSE and
\* a snapshot exists, the validator text equals the snapshot's text.
C9_UnchangedEqualsSnapshot ==
  (validation.isChanged = FALSE /\ validation.prevValidator # UNDEFINED)
    => validation.validator = validation.prevValidator

\* C10: after a save has completed without error (VALIDATOR_SAVED), isChanged
\* is FALSE and the snapshot is the saved validator text.
C10_SavedUpdatesSnapshot ==
  (lastEvent.type = "saveCallback" /\ ~lastEvent.error)
    => /\ validation.isChanged = FALSE
       /\ validation.prevValidator = validation.validator

\* C11: when the command of a save fails (no newer edit in between), the
\* edit is kept: isChanged stays TRUE and the validator text is unchanged.
C11_FailedSaveKeepsEdit ==
  [][(/\ lastEvent'.type = "saveCallback"
      /\ lastEvent'.error
      /\ ~lastEvent'.stale
      /\ validation.isChanged)
       => /\ validation'.isChanged
          /\ validation'.validator = validation.validator]_vars

\* C12: right after VALIDATOR_CANCELED the validator text is the snapshot's
\* text, or the initial empty text when there is no snapshot, syntaxError is
\* null and isChanged is FALSE.
C12_CancelRestoresText ==
  lastEvent.type = "VALIDATOR_CANCELED"
    => /\ validation.validator =
            IF validation.prevValidator = UNDEFINED
              THEN INITIAL_STATE.validator
              ELSE validation.prevValidator
       /\ validation.syntaxError = NULL
       /\ validation.isChanged = FALSE

\* C13: right after VALIDATOR_CANCELED validationAction and validationLevel
\* are those of the snapshot: the values last fetched, or the initial ones
\* when nothing was fetched (no save having completed since).
C13_CancelRestoresActionAndLevel ==
  (lastEvent.type = "VALIDATOR_CANCELED" /\ snapshot # SavedSince)
    => Fields(validation) = snapshot

\* The rule check of the loaded revision.
RuleCheck(text) ==
  IF validationRev = "validation.js"
    THEN checkValidator(text)
    ELSE checkValidatorLegacy(text)

\* C14: right after VALIDATOR_CHANGED the validator text is exactly the text
\* that was dispatched, isChanged is TRUE and syntaxError is the error the
\* rule check reports for that text.
C14_ChangeStoresRawText ==
  lastEvent.type = "VALIDATOR_CHANGED"
    => /\ validation.validator = lastEvent.input
       /\ validation.isChanged = TRUE
       /\ validation.syntaxError = RuleCheck(lastEvent.input).syntaxError

\* C15: the rule check of the empty text reports no error, and right after
\* VALIDATOR_CHANGED with the empty text isChanged is TRUE and syntaxError
\* is null.
C15_EmptyTextIsValid ==
  (lastEvent.type = "VALIDATOR_CHANGED" /\ lastEvent.input = TextEmpty)
    => /\ RuleCheck(TextEmpty).syntaxError = NULL
       /\ validation.isChanged = TRUE
       /\ validation.syntaxError = NULL

\* C16: right after VALIDATION_ACTION_CHANGED or VALIDATION_LEVEL_CHANGED the
\* field holds the dispatched value and isChanged is TRUE.
C16_FieldChangeMarksDirty ==
  /\ lastEvent.type = "VALIDATION_ACTION_CHANGED"
       => /\ validation.validationAction = lastEvent.input
          /\ validation.isChanged = TRUE
  /\ lastEvent.type = "VALIDATION_LEVEL_CHANGED"
       => /\ validation.validationLevel = lastEvent.input
          /\ validation.isChanged = TRUE

\* C14 for validation.js alone.
C14_ChangeStoresRawTextCurrent ==
  validationRev = "validation.js" => C14_ChangeStoresRawText

\* The text a fetched validator is shown as: the stringified document, the
\* initial empty text when the collection has none.
FetchedText(validator) ==
  IF validator = UNDEFINED
    THEN INITIAL_STATE.validator
    ELSE javascriptStringify(validator)

\* C17: right after a fetch of validation.js has completed without error
\* with the options of the collection, the record holds the fetched validator
\* as text, the fetched validationAction and validationLevel, isChanged is
\* FALSE, syntaxError is null, and the snapshot holds all three values.
C17_FetchedRecordAndSnapshot ==
  (/\ validationRev = "validation.js"
   /\ lastEvent.type = "fetchCallback"
   /\ ~lastEvent.error
   /\ lastEvent.data.hasOptions)
    => LET fetched == FetchedValidation(FALSE, lastEvent.data)
           text == FetchedText(lastEvent.data.options.validator)
       IN /\ validation.validator = text
          /\ Fields(validation) = Fields(fetched)
          /\ validation.isChanged = FALSE
          /\ validation.syntaxError = NULL
          /\ prevValidation(validation) =
               [validator |-> text,
                validationAction |-> fetched.validationAction,
                validationLevel |-> fetched.validationLevel]

\* C17 without the snapshot of validationAction and validationLevel, for a
\* collection that has a validator.
C17_FetchedRecord ==
  (/\ validationRev = "validation.js"
   /\ lastEvent.type = "fetchCallback"
   /\ ~lastEvent.error
   /\ lastEvent.data.hasOptions
   /\ lastEvent.data.options.validator # UNDEFINED)
    => LET fetched == FetchedValidation(FALSE, lastEvent.data)
           text == FetchedText(lastEvent.data.options.validator)
       IN /\ validation.validator = text
          /\ Fields(validation) = Fields(fetched)
          /\ validation.isChanged = FALSE
          /\ validation.syntaxError = NULL
          /\ validation.prevValidator = text

\* C18: when listCollections reports an error or returns no entry while the
\* record is at its defaults, no exception escapes the callback and
\* validator, validationAction and validationLevel stay at the defaults.
C18_FailedFetchKeepsDefaults ==
  [][(/\ lastEvent'.type = "fetchCallback"
      /\ (lastEvent'.error \/ lastEvent'.data.kind # "entry")
      /\ validation \in {INITIAL_STATE, INITIAL_STATE_LEGACY})
       => /\ uncaught' = FALSE
          /\ validation'.validator = validation.validator
          /\ Fields(validation') = Fields(validation)]_vars

\* C19: a save request changes no field of the record, and the command it
\* sends carries the checked validator with the validationAction and the
\* validationLevel of the state.
C19_SaveCommandCarriesRecord ==
  [][(lastEvent'.type = "saveValidation" /\ dataService # NULL)
       => LET command == pendingSaves'[Len(pendingSaves')].command
          IN /\ validation' = validation
             /\ command.validator = checkValidator(validation.validator).validator
             /\ Get(command, "validationAction") = validation.validationAction
             /\ Get(command, "validationLevel") = validation.validationLevel]_vars

\* C20: a fetchSampleDocuments invocation whose text the rule check rejects
\* issues no store query.
C20_NoQueryOnSyntaxError ==
  \A r \in 1..Len(requests) :
    checkValidator(requests[r].validator).syntaxError # NULL
      => requests[r].pc = "nods"

C22_RecheckIsIdempotent ==
  \A r \in 1..Len(requests) :
    checkValidator(requests[r].validator).syntaxError = NULL
      => LET normalized == checkValidator(requests[r].validator).validator
         IN /\ checkValidator(normalized).syntaxError = NULL
            /\ checkValidator(normalized).validator = normalized
            /\ requests[r].query = normalized

\* C22 for the rule check of part_005, whose result is a text.
C22_RecheckIsIdempotentLegacy ==
  (/\ validationRev = "part_005"
   /\ lastEvent.type = "VALIDATOR_CHANGED"
   /\ checkValidatorLegacy(lastEvent.input).syntaxError = NULL)
    => LET normalized == checkValidatorLegacy(lastEvent.input).validator
       IN /\ checkValidatorLegacy(normalized).syntaxError = NULL
          /\ checkValidatorLegacy(normalized).validator = normalized
          /\ validation.validator = normalized

\* C24: in every reachable state validationAction is warn or error and
\* validationLevel is off, moderate or strict (validation.js; part_005 has
\* neither field).
C24_EnumValues ==
  validationRev = "validation.js"
    => /\ validation.validationAction \in {"warn", "error"}
       /\ validation.validationLevel \in {"off", "moderate", "strict"}

C25_OneErrorShown ==
  /\ ~(renderSyntaxError(propsError, validation) /\ renderError(propsError))
  /\ propsError # UNDEFINED
       => renderError(propsError) /\ ~renderSyntaxError(propsError, validation)

C25_Witness ==
  /\ propsError # UNDEFINED
  /\ validation.syntaxError # NULL
  /\ renderContent(isZeroState, isEditable)

C29_ButtonsOnlyForCleanEdit ==
  [][lastEvent'.type \in {"onValidatorSave", "VALIDATOR_CANCELED"}
       => /\ propsError = UNDEFINED
          /\ validation.syntaxError = NULL
          /\ validation.isChanged]_vars

C29_Witness ==
  /\ lastEvent.type = "onValidatorSave"
  /\ validation.validator # ""
  /\ validation.isChanged = FALSE

\* C30: exactly one of the zero state and the content is rendered, and the
\* content is rendered iff isZeroState is FALSE and isEditable is TRUE.
C30_ZeroStateOrContent ==
  /\ renderZeroState(isZeroState, isEditable) # renderContent(isZeroState, isEditable)
  /\ renderContent(isZeroState, isEditable) <=> (~isZeroState /\ isEditable)

C30_Witness ==
  /\ lastEvent.type = "ZERO_STATE_CHANGED"
  /\ ~isZeroState
  /\ ~isEditable

\* The number of documents of a collection.
RECURSIVE CollectionSize(_)
CollectionSize(coll) ==
  IF coll = <<>> THEN 0 ELSE coll[1].n + CollectionSize(Tail(coll))

PreLimits(pipeline) ==
  Cardinality({i \in 1..Len(pipeline) : pipeline[i] = LimitStage(MAX_LIMIT)})

\* C27: a pipeline sent to the store starts with {$limit: MAX_LIMIT}, placed
\* before its $match, iff the collection has more than MAX_LIMIT documents,
\* and never has that stage twice.
C27_PreLimitIffLargeCollection ==
  sampleRev = "aggregate" =>
    \A r \in 1..Len(requests) :
      requests[r].pc \in {"aggregate", "toArray"} =>
        LET pipeline == requests[r].pipeline
        IN /\ PreLimits(pipeline) <= 1
           /\ (CollectionSize(collection) > MAX_LIMIT)
                <=> /\ pipeline[1] = LimitStage(MAX_LIMIT)
                    /\ pipeline[2].op = "$match"

\* C27, the part the pipelines keep: the stage is there iff more than
\* MAX_LIMIT documents satisfy the query, in front of $match, at most once.
C27_PreLimitIffLargeCount ==
  sampleRev = "aggregate" =>
    \A r \in 1..Len(requests) :
      requests[r].pc \in {"aggregate", "toArray"} =>
        LET pipeline == requests[r].pipeline
        IN /\ PreLimits(pipeline) <= 1
           /\ (CountColl(collection, requests[r].query) > MAX_LIMIT)
                <=> /\ pipeline[1] = LimitStage(MAX_LIMIT)
                    /\ pipeline[2].op = "$match"

\* C28: a request that dispatched the documents it fetched reports matching
\* null only if no document of the collection satisfies its query and
\* notmatching null only if none violates it, and otherwise one such
\* document.
C28_NullOnlyIfNoneExists ==
  sampleRev = "aggregate" =>
    \A r \in 1..Len(requests) :
      (requests[r].pc = "done" /\ ~requests[r].failed /\ requests[r].fetched > 0) =>
        LET query == requests[r].query
            satisfying == CountColl(collection, query)
            payload == requests[r].payload
        IN /\ IF payload.matching = NULL
                THEN satisfying = 0
                ELSE Sat(payload.matching, query)
           /\ IF payload.notmatching = NULL
                THEN satisfying = CollectionSize(collection)
                ELSE ~Sat(payload.notmatching, query)

\* C31: once fetchSampleDocuments has been dispatched with no data service
\* connected, isLoading becomes FALSE again, by that request alone: at the
\* latest when the next dispatch or a data service arrives.
C31_NoDataServiceSettles ==
  (Len(requests) = 1 /\ requests[1].pc = "nods" /\ dataService = NULL)
    ~> \/ ~sampleDocuments.isLoading
       \/ Len(requests) > 1
       \/ dataService # NULL

\* C31, the part that holds: such a request issues no store call.
C31_NoDataServiceNoQuery ==
  [][\A r \in 1..Len(requests) :
       requests[r].pc = "nods" => requests'[r] = requests[r]]_vars

\* C32: the sample-documents state has the keys matching, notmatching and
\* isLoading and no other; no type is ever stored in it.
C32_ExactlyThreeFields ==
  /\ DOMAIN sampleDocuments = {"matching", "notmatching", "isLoading", "type"}
  /\ sampleDocuments.type = UNDEFINED

\* C32, the part that holds: LOADING_SAMPLE_DOCUMENTS leaves matching and
\* notmatching as they were.
C32_LoadingKeepsDocuments ==
  [][lastEvent'.type = "fetchSampleDocuments"
       => /\ sampleDocuments'.isLoading
          /\ sampleDocuments'.matching = sampleDocuments.matching
          /\ sampleDocuments'.notmatching = sampleDocuments.notmatching]_vars

\* C33: no store state a fetch completion of validation.js produces holds the
\* fetched validator text, isChanged FALSE, together with a validationAction
\* or validationLevel that is not the fetched one.
C33_FetchedAppliedAtOnce ==
  [][(/\ lastEvent'.type = "fetchCallback"
      /\ validationRev = "validation.js"
      /\ lastEvent'.data.kind = "entry")
       => LET fetched == FetchedValidation(lastEvent'.error, lastEvent'.data)
              observed == StatesOfFetched(validation, fetched)
          IN /\ observed[Len(observed)] = validation'
             /\ \A k \in 1..Len(observed) :
                  (observed[k].validator = validation'.validator /\ ~observed[k].isChanged)
                    => /\ observed[k].validationAction = fetched.validationAction
                       /\ observed[k].validationLevel = fetched.validationLevel]_vars

\* C33, the part that holds: the last of the states is the fetched record.
C33_FetchedAppliedInTheEnd ==
  [][(/\ lastEvent'.type = "fetchCallback"
      /\ validationRev = "validation.js"
      /\ lastEvent'.data.kind = "entry")
       => LET fetched == FetchedValidation(lastEvent'.error, lastEvent'.data)
          IN /\ StatesOfFetched(validation, fetched)[3] = validation'
             /\ validation'.validationAction = fetched.validationAction
             /\ validation'.validationLevel = fetched.validationLevel
             /\ ~validation'.isChanged]_vars

\* C34: no step leaves undestroyed a sandbox context that an evaluation in
\* it created, whether the expression evaluated or threw.
C34_ContextAlwaysDestroyed ==
  lastEvent.undestroyed = 0

\* C34, the part that holds: an evaluation that does not throw destroys its
\* context.
C34_ContextDestroyedOnSuccess ==
  (lastEvent.type = "VALIDATOR_CHANGED" /\ RuleCheck(lastEvent.input).syntaxError # SyntaxErr)
    => lastEvent.undestroyed = 0

====
